---- MODULE Spec2Model ----
(***************************************************************************)
(* Model of the report generator of spotify-ontario-analysis               *)
(* (src/generate_report.py): the ReportGenerator class (load_data, the six *)
(* aggregation/chart operations, generate_html_report) and main; and of    *)
(* the dashboard launcher (src/run_dashboard.py): the checks of its main   *)
(* and launch_dashboard.                                                   *)
(*                                                                         *)
(* Representation.                                                         *)
(*   - A DataFrame is a record [cols, rows]: cols is the set of column     *)
(*     names, rows a sequence of records whose domain is cols.             *)
(*   - A missing numeric value (NaN / NaT) is the number NaN below; a      *)
(*     missing string value is the string NaS.                             *)
(*   - A release_date string is the sequence of its numeric fields         *)
(*     <<year, month, day>>; <<>> is the empty string and a sequence whose *)
(*     fields are no calendar date is an unparsable string.                *)
(*   - Python's None is the record None; an HTML chart is a record         *)
(*     [kind |-> "chart", ...] holding the data handed to plotly.          *)
(*   - Rational results (means, correlations) are kept exact, as reduced   *)
(*     fractions.                                                          *)
(***************************************************************************)
EXTENDS Integers, Sequences, FiniteSets, TLC

VARIABLES
    files,         \* the data directory: a set of files with their creation times
    now,           \* the wall clock (seconds), read by datetime.now()
    gen,           \* "none" | "ready" | "failed" | "exited": the ReportGenerator object
    tracks_df,     \* self.tracks_df
    playlists_df,  \* self.playlists_df
    latest,        \* the latest_file chosen by load_data for each dataset
    last,          \* the last call made: its name, exception, return value
    components,    \* the locals of the last generate_html_report
    reports,       \* the output directory: a set of [path, html]
    main_ret,      \* what main() returned
    \* the dashboard launcher (src/run_dashboard.py), a process of its own
    env,           \* what it finds: directories, importable modules, app.py
    pc,            \* where main is: "idle" | "start" | "requirements" | "data" |
                   \*   "launch" | "running" | "returned" | "exited"
    checks,        \* the checks main has made, in order, each with its result
    streamlit,     \* the streamlit process: "not started" or how it ended
    success,       \* what launch_dashboard returned: "True" | "False" | "None"
    message,       \* the closing message main printed
    exit_status    \* the exit status of the process, NoStatus while it runs

report_vars == <<now, gen, tracks_df, playlists_df, latest, last, components,
                 reports, main_ret>>

launcher_vars == <<env, pc, checks, streamlit, success, message, exit_status>>

vars == <<files, report_vars, launcher_vars>>

----------------------------------------------------------------------------
(* Bounds of the model *)

MaxFiles == 3
MaxClock == 1
MaxDateRows == 3
MaxExtraRows == 3
MaxCorrRows == 3

----------------------------------------------------------------------------
(* Values *)

NaN == 0 - 1
NaS == "NaN"
None == [kind |-> "None"]
NotRun == [kind |-> "NotRun"]
NoFile == [ds |-> "none", fmt |-> "none", stamp |-> 0, ctime |-> 0]

Raise(e) == [exc |-> e, ret |-> None]
Return(v) == [exc |-> "", ret |-> v]

RECURSIVE GCD(_, _)
GCD(a, b) == IF b = 0 THEN a ELSE GCD(b, a % b)

Abs(x) == IF x < 0 THEN 0 - x ELSE x

\* the exact fraction n/d (d > 0), reduced
Frac(n, d) ==
    LET g == GCD(Abs(n), d)
    IN  [num |-> n \div g, den |-> d \div g]

NaNFrac == [num |-> 0, den |-> 0]

----------------------------------------------------------------------------
(* DataFrame helpers (pandas) *)

DataFrame(cols, rows) == [cols |-> cols, rows |-> rows]

\* df[c] as a sequence of values
Column(df, c) == [i \in 1..Len(df.rows) |-> df.rows[i][c]]

\* len(df)
DfLen(df) == Len(df.rows)

\* Series.nunique() of a string column: the number of distinct non-null values
NUnique(s) == Cardinality({s[i] : i \in {j \in DOMAIN s : s[j] # NaS}})

\* the non-null values of a numeric series
NonNull(s) == {s[i] : i \in {j \in DOMAIN s : s[j] # NaN}}

\* Series.min() / Series.max(): NaN is skipped; NaN when nothing is left
SeriesMin(s) ==
    IF NonNull(s) = {} THEN NaN
    ELSE CHOOSE m \in NonNull(s) : \A v \in NonNull(s) : m <= v

SeriesMax(s) ==
    IF NonNull(s) = {} THEN NaN
    ELSE CHOOSE m \in NonNull(s) : \A v \in NonNull(s) : m >= v

RECURSIVE SumSeq(_)
SumSeq(s) == IF s = <<>> THEN 0 ELSE Head(s) + SumSeq(Tail(s))

\* Series.mean(): NaN is skipped; NaN when nothing is left
SeriesMean(s) ==
    LET vals == SelectSeq(s, LAMBDA v : v # NaN)
    IN  IF vals = <<>> THEN NaNFrac ELSE Frac(SumSeq(vals), Len(vals))

\* the values of s in order of first appearance, the null value dropped
RECURSIVE Uniques(_, _)
Uniques(s, null) ==
    IF s = <<>> THEN <<>>
    ELSE LET init == Uniques(SubSeq(s, 1, Len(s) - 1), null)
             v == s[Len(s)]
         IN  IF v = null \/ \E i \in DOMAIN init : init[i] = v
             THEN init ELSE Append(init, v)

\* the sorted sequence s with the year x inserted, ascending
RECURSIVE InsertAscending(_, _)
InsertAscending(x, s) ==
    IF s = <<>> THEN <<x>>
    ELSE IF x < Head(s) THEN <<x>> \o s
    ELSE <<Head(s)>> \o InsertAscending(x, Tail(s))

\* the keys sorted ascending
RECURSIVE SortAscending(_)
SortAscending(s) ==
    IF s = <<>> THEN <<>>
    ELSE InsertAscending(s[Len(s)], SortAscending(SubSeq(s, 1, Len(s) - 1)))

\* the sorted sequence s of [value, count] with x inserted after every entry
\* whose count is at least x's: one step of a stable sort by descending count
RECURSIVE InsertByCount(_, _)
InsertByCount(x, s) ==
    IF s = <<>> THEN <<x>>
    ELSE IF x.count > Head(s).count THEN <<x>> \o s
    ELSE <<Head(s)>> \o InsertByCount(x, Tail(s))

\* sort_values(ascending=False), stable: equal counts keep their order
RECURSIVE SortByCount(_)
SortByCount(s) ==
    IF s = <<>> THEN <<>>
    ELSE InsertByCount(s[Len(s)], SortByCount(SubSeq(s, 1, Len(s) - 1)))

\* s.head(n)
HeadN(s, n) == SubSeq(s, 1, IF Len(s) < n THEN Len(s) ELSE n)

----------------------------------------------------------------------------
(* pd.to_datetime(..., errors='coerce').dt.year *)

IsLeap(y) == (y % 4 = 0 /\ y % 100 # 0) \/ y % 400 = 0

DaysInMonth(y, m) ==
    IF m = 2 THEN (IF IsLeap(y) THEN 29 ELSE 28)
    ELSE IF m \in {4, 6, 9, 11} THEN 30 ELSE 31

\* a string that parses as a date
Parses(s) ==
    /\ Len(s) = 3
    /\ s[2] \in 1..12
    /\ s[3] \in 1..DaysInMonth(s[1], s[2])

\* the year of the parsed date; NaN (from NaT) for a string that does not parse
ToDatetimeYear(s) == IF Parses(s) THEN s[1] ELSE NaN

----------------------------------------------------------------------------
(* load_data *)

\* the patterns of a dataset, in the order load_data tries them
track_patterns == <<"parquet", "csv">>
playlist_patterns == <<"parquet", "csv">>

\* glob.glob(pattern): the files of the directory that match the pattern
Glob(dir, ds, fmt) == {f \in dir : f.ds = ds /\ f.fmt = fmt}

\* max(files, key=os.path.getctime): a file with the greatest creation time
\* (glob's order is arbitrary, so any of those may be the first one)
MaxCtime(fs) == {f \in fs : \A g \in fs : g.ctime <= f.ctime}

\* the for loop over the patterns: the first pattern that matches any file
\* decides, and the loop breaks
RECURSIVE LatestFiles(_, _, _)
LatestFiles(dir, ds, patterns) ==
    IF patterns = <<>> THEN {}
    ELSE IF Glob(dir, ds, Head(patterns)) # {}
         THEN MaxCtime(Glob(dir, ds, Head(patterns)))
         ELSE LatestFiles(dir, ds, Tail(patterns))

\* pd.read_parquet / pd.read_csv of a file: its table
ReadFile(f) == f.table

\* load_data raising for a missing playlists file too
load_data_PlaylistsRequired(dir) ==
    LET ts == LatestFiles(dir, "tracks", track_patterns)
        ps == LatestFiles(dir, "playlists", playlist_patterns)
        tchoice == IF ts = {} THEN {NoFile} ELSE ts
        pchoice == IF ps = {} THEN {NoFile} ELSE ps
    IN  { [exc |-> IF t = NoFile \/ p = NoFile THEN "FileNotFoundError" ELSE "",
           tracks_df |-> IF t = NoFile THEN None ELSE ReadFile(t),
           playlists_df |-> IF p = NoFile THEN None ELSE ReadFile(p),
           latest |-> [tracks |-> [ds |-> t.ds, fmt |-> t.fmt,
                                   stamp |-> t.stamp, ctime |-> t.ctime],
                       playlists |-> [ds |-> p.ds, fmt |-> p.fmt,
                                      stamp |-> p.stamp, ctime |-> p.ctime]]]
          : t \in tchoice, p \in pchoice }

\* the outcomes of load_data: the frames, the files chosen, the exception
load_data(dir) ==
    LET ts == LatestFiles(dir, "tracks", track_patterns)
        ps == LatestFiles(dir, "playlists", playlist_patterns)
        tchoice == IF ts = {} THEN {NoFile} ELSE ts
        pchoice == IF ps = {} THEN {NoFile} ELSE ps
    IN  { [exc |-> IF t = NoFile THEN "FileNotFoundError" ELSE "",
           tracks_df |-> IF t = NoFile THEN None ELSE ReadFile(t),
           playlists_df |-> IF p = NoFile THEN None ELSE ReadFile(p),
           latest |-> [tracks |-> [ds |-> t.ds, fmt |-> t.fmt,
                                   stamp |-> t.stamp, ctime |-> t.ctime],
                       playlists |-> [ds |-> p.ds, fmt |-> p.fmt,
                                      stamp |-> p.stamp, ctime |-> p.ctime]]]
          : t \in tchoice, p \in pchoice }

----------------------------------------------------------------------------
(* create_summary_stats *)

\* int(x): a NaN cannot be converted
PyInt(x) == IF x = NaN THEN Raise("ValueError") ELSE Return(x)

\* df['release_year'] = pd.to_datetime(df['release_date'], errors='coerce').dt.year
WithReleaseYear(df) ==
    DataFrame(df.cols \cup {"release_year"},
              [i \in 1..Len(df.rows) |->
                  [c \in df.cols \cup {"release_year"} |->
                      IF c = "release_year"
                      THEN ToDatetimeYear(df.rows[i]["release_date"])
                      ELSE df.rows[i][c]]])

\* the dict {'min': mn, 'max': mx} of two int() results, or the first exception
MinMaxDict(mn, mx) ==
    IF mn.exc # "" THEN mn
    ELSE IF mx.exc # "" THEN mx
    ELSE Return([kind |-> "dict", min |-> mn.ret, max |-> mx.ret])

\* {'min': int(df['release_year'].min()), 'max': int(df['release_year'].max())}
YearRange(df) ==
    MinMaxDict(PyInt(SeriesMin(Column(df, "release_year"))),
               PyInt(SeriesMax(Column(df, "release_year"))))

\* no except clause: the exception goes on
Except_Propagate(r) == r

\* the except clause: any exception gives None
Except(r) == IF r.exc # "" THEN Return(None) ELSE r

\* the try/except around the date range
TryYearRange(df) == Except(YearRange(df))

\* the counts of the stats dict
BaseStats(df, pl) ==
    [kind |-> "dict",
     total_tracks |-> DfLen(df),
     total_playlists |-> IF pl # None THEN DfLen(pl) ELSE 0,
     unique_artists |-> IF "artist" \in df.cols
                        THEN NUnique(Column(df, "artist")) ELSE 0,
     unique_albums |-> IF "album" \in df.cols
                       THEN NUnique(Column(df, "album")) ELSE 0]

\* the date range block: stats['year_range'] = yr.ret, or yr's exception
WithYearRange(stats, yr, df2) ==
    [exc |-> yr.exc,
     ret |-> IF yr.exc # "" THEN None ELSE ("year_range" :> yr.ret) @@ stats,
     df |-> df2]

DateRange(stats, df2) == WithYearRange(stats, TryYearRange(df2), df2)

\* returns [exc, ret, df]: the exception, the stats dict and self.tracks_df
\* as the call leaves it
create_summary_stats(df, pl) ==
    IF "release_date" \in df.cols
    THEN DateRange(BaseStats(df, pl), WithReleaseYear(df))
    ELSE [exc |-> "", ret |-> BaseStats(df, pl), df |-> df]

----------------------------------------------------------------------------
(* The chart operations: each returns [exc, ret], ret being None or the     *)
(* chart (fig.to_html), a record of the data the figure was built from.     *)

\* f.title() of the feature names
Title(f) ==
    CASE f = "danceability" -> "Danceability"
      [] f = "energy" -> "Energy"
      [] f = "valence" -> "Valence"
      [] f = "tempo" -> "Tempo"
      [] f = "loudness" -> "Loudness"
      [] f = "acousticness" -> "Acousticness"
      [] f = "instrumentalness" -> "Instrumentalness"
      [] f = "liveness" -> "Liveness"
      [] f = "speechiness" -> "Speechiness"

\* [f for f in audio_features if f in self.tracks_df.columns]
Available(audio_features, df) == SelectSeq(audio_features, LAMBDA f : f \in df.cols)

nbins == 20

create_popularity_chart(df) ==
    IF "popularity" \notin df.cols THEN Return(None)
    ELSE Return([kind |-> "chart", type |-> "histogram",
                 x |-> Column(df, "popularity"), nbins |-> nbins])

radar_features == <<"danceability", "energy", "valence", "acousticness",
                    "instrumentalness", "liveness", "speechiness">>

create_audio_features_radar(df) ==
    LET available_features == Available(radar_features, df)
    IN  IF available_features = <<>> THEN Return(None)
        ELSE Return([kind |-> "chart", type |-> "scatterpolar",
                     r |-> [i \in DOMAIN available_features |->
                               SeriesMean(Column(df, available_features[i]))],
                     theta |-> [i \in DOMAIN available_features |->
                                   Title(available_features[i])]])

trend_features == <<"danceability", "energy", "valence">>

MinYear == 1990
MaxYear == 2025

\* the keys of groupby('release_year'): the distinct non-null years, sorted
GroupKeys(years) == SortAscending(Uniques(years, NaN))

\* the window filter without its upper end
FilterYears_NoUpper(keys) == SelectSeq(keys, LAMBDA y : y >= MinYear)

\* the window filter on the grouped frame
FilterYears(keys) == SelectSeq(keys, LAMBDA y : y >= MinYear /\ y <= MaxYear)

\* the mean of feature f over the rows of year y
GroupMean(df, y, f) ==
    SeriesMean([i \in 1..Len(df.rows) |->
                   IF df.rows[i]["release_year"] = y THEN df.rows[i][f] ELSE NaN])

create_yearly_trends(df) ==
    IF "release_year" \notin df.cols THEN Return(None)
    ELSE LET available_features == Available(trend_features, df)
         IN  IF available_features = <<>> THEN Return(None)
             ELSE LET years == FilterYears(GroupKeys(Column(df, "release_year")))
                  IN  Return([kind |-> "chart", type |-> "scatter",
                              x |-> years,
                              traces |-> [i \in DOMAIN available_features |->
                                  [name |-> Title(available_features[i]),
                                   y |-> [k \in DOMAIN years |->
                                            GroupMean(df, years[k],
                                                      available_features[i])]]]])

TopN == 15

\* the number of rows of column s that hold v
CountOf(s, v) == Cardinality({i \in DOMAIN s : s[i] = v})

\* value_counts(sort=False): the counts in order of first appearance
value_counts_Unsorted(s) ==
    [i \in DOMAIN Uniques(s, NaS) |->
        [value |-> Uniques(s, NaS)[i], count |-> CountOf(s, Uniques(s, NaS)[i])]]

\* Series.value_counts(): the distinct non-null values with their counts,
\* by descending count, ties in order of first appearance
value_counts(s) ==
    LET u == Uniques(s, NaS)
        pairs == [i \in DOMAIN u |-> [value |-> u[i], count |-> CountOf(s, u[i])]]
    IN  SortByCount(pairs)

\* the chart without the check of the column: an empty ranking
create_top_artists_chart_NoGuard(df) ==
    Return([kind |-> "chart", type |-> "bar", x |-> <<>>, y |-> <<>>])

create_top_artists_chart(df) ==
    IF "artist" \notin df.cols THEN Return(None)
    ELSE LET artist_counts == HeadN(value_counts(Column(df, "artist")), TopN)
         IN  Return([kind |-> "chart", type |-> "bar",
                     x |-> [i \in DOMAIN artist_counts |-> artist_counts[i].count],
                     y |-> [i \in DOMAIN artist_counts |-> artist_counts[i].value]])

corr_features == <<"danceability", "energy", "valence", "tempo", "loudness",
                   "acousticness", "instrumentalness", "liveness", "speechiness">>

\* the rows where the first column holds a value
PairRows_FirstOnly(df, a, b) ==
    SelectSeq([i \in 1..Len(df.rows) |-> i], LAMBDA i : df.rows[i][a] # NaN)

\* the rows where both columns hold a value (pairwise-complete observations)
PairRows(df, a, b) ==
    SelectSeq([i \in 1..Len(df.rows) |-> i],
              LAMBDA i : df.rows[i][a] # NaN /\ df.rows[i][b] # NaN)

\* Pearson's r from the sums of squared deviations ssa, ssb and of products
\* cov over n rows (each scaled by n): cov / sqrt(ssa * ssb), NaN when that is
\* 0/0 or there is no row. The value is kept exact as sign(cov) and the
\* reduced fraction cov^2 / (ssa * ssb).
PearsonOf(n, ssa, ssb, cov) ==
    IF n = 0 \/ ssa * ssb = 0 THEN [nan |-> TRUE, sign |-> 0, sq |-> NaNFrac]
    ELSE [nan |-> FALSE,
          sign |-> IF cov > 0 THEN 1 ELSE IF cov < 0 THEN 0 - 1 ELSE 0,
          sq |-> Frac(cov * cov, ssa * ssb)]

\* n * sum(x * y) - sum(x) * sum(y) of two series of equal length
Deviations(x, y) ==
    Len(x) * SumSeq([k \in DOMAIN x |-> x[k] * y[k]]) - SumSeq(x) * SumSeq(y)

PearsonSeries(x, y) ==
    PearsonOf(Len(x), Deviations(x, x), Deviations(y, y), Deviations(x, y))

\* column c on the rows R
Take(df, c, R) == [k \in DOMAIN R |-> df.rows[R[k]][c]]

\* Pearson's r of columns a and b over their pairwise-complete rows
Pearson(df, a, b) ==
    PearsonSeries(Take(df, a, PairRows(df, a, b)), Take(df, b, PairRows(df, a, b)))

\* DataFrame.corr() over the given columns
Corr(df, features) ==
    [i \in DOMAIN features |-> [j \in DOMAIN features |->
        Pearson(df, features[i], features[j])]]

create_correlation_heatmap(df) ==
    LET available_features == Available(corr_features, df)
    IN  IF Len(available_features) < 2 THEN Return(None)
        ELSE Return([kind |-> "chart", type |-> "imshow",
                     labels |-> available_features,
                     z |-> Corr(df, available_features)])

----------------------------------------------------------------------------
(* generate_html_report *)

NoData(text) == [kind |-> "no-data", text |-> text]

\* the section without the fallback to the placeholder
Section_NoPlaceholder(chart, text) == chart

\* {chart if chart else '<div class="no-data">...</div>'}: None is falsy, the
\* HTML of a chart is a non-empty string
Section(chart, text) == IF chart # None THEN chart ELSE NoData(text)

\* the f-string of the report: the four stat cards and the five sections
Html(c) ==
    [stats |-> [total_tracks |-> c.stats.total_tracks,
                total_playlists |-> c.stats.total_playlists,
                unique_artists |-> c.stats.unique_artists,
                unique_albums |-> c.stats.unique_albums],
     popularity |-> Section(c.popularity_chart, "Popularity data not available"),
     radar |-> Section(c.radar_chart, "Audio features data not available"),
     artists |-> Section(c.artists_chart, "Artist data not available"),
     trends |-> Section(c.trends_chart, "Temporal data not available"),
     correlation |-> Section(c.correlation_chart, "Correlation data not available")]

\* the exception of the first call of the sequence that raised, "" if none did
RECURSIVE FirstExc(_)
FirstExc(calls) ==
    IF calls = <<>> THEN ""
    ELSE IF Head(calls).exc # "" THEN Head(calls).exc
    ELSE FirstExc(Tail(calls))

\* the path of the report written at time t
ReportPath(t) == [kind |-> "path", timestamp |-> t]

\* open(report_path, 'w').write(html): the file is created or overwritten
WriteFile(dir, path, html) ==
    {r \in dir : r.path # path} \cup {[path |-> path, html |-> html]}

\* the end of generate_html_report: the exception of the components if one
\* raised, else the report file written at time t
SaveReport(exc, c, df1, t, dir) ==
    IF exc # ""
    THEN [exc |-> exc, ret |-> None, df |-> df1, components |-> NotRun,
          reports |-> dir, writes |-> 0]
    ELSE [exc |-> "", ret |-> ReportPath(t), df |-> df1, components |-> c,
          reports |-> WriteFile(dir, ReportPath(t), Html(c)), writes |-> 1]

\* the locals of generate_html_report once the six calls have returned
Components(stats, popularity, radar, trends, artists, correlation, t, dir) ==
    SaveReport(FirstExc(<<stats, popularity, radar, trends, artists, correlation>>),
               [stats |-> stats.ret,
                popularity_chart |-> popularity.ret,
                radar_chart |-> radar.ret,
                trends_chart |-> trends.ret,
                artists_chart |-> artists.ret,
                correlation_chart |-> correlation.ret],
               stats.df, t, dir)

\* the five chart calls, on the frame create_summary_stats left
AfterStats(stats, t, dir) ==
    Components(stats,
               create_popularity_chart(stats.df),
               create_audio_features_radar(stats.df),
               create_yearly_trends(stats.df),
               create_top_artists_chart(stats.df),
               create_correlation_heatmap(stats.df),
               t, dir)

\* generate_html_report with create_yearly_trends called before
\* create_summary_stats, on the frame as it was
generate_html_report_TrendsFirst(df, pl, t, dir) ==
    Components(create_summary_stats(df, pl),
               create_popularity_chart(create_summary_stats(df, pl).df),
               create_audio_features_radar(create_summary_stats(df, pl).df),
               create_yearly_trends(df),
               create_top_artists_chart(create_summary_stats(df, pl).df),
               create_correlation_heatmap(create_summary_stats(df, pl).df),
               t, dir)

\* returns [exc, ret, df, components, reports, writes]: the six operations in
\* the order of the code, then the file
generate_html_report(df, pl, t, dir) ==
    AfterStats(create_summary_stats(df, pl), t, dir)

----------------------------------------------------------------------------
(* Actions *)

Call(op, exc, ret, writes) == [op |-> op, exc |-> exc, ret |-> ret, writes |-> writes]

\* ReportGenerator(): __init__ runs load_data
Construct ==
    /\ gen = "none"
    /\ \E r \in load_data(files) :
        /\ gen' = IF r.exc = "" THEN "ready" ELSE "failed"
        /\ tracks_df' = r.tracks_df
        /\ playlists_df' = r.playlists_df
        /\ latest' = r.latest
        /\ last' = Call("ReportGenerator", r.exc, None, 0)
    /\ UNCHANGED <<files, now, components, reports, main_ret, launcher_vars>>

\* the effect of a create_summary_stats call that returned r
SummaryStatsDone(r) ==
    /\ tracks_df' = r.df
    /\ last' = Call("create_summary_stats", r.exc, r.ret, 0)

CreateSummaryStats ==
    /\ gen = "ready"
    /\ SummaryStatsDone(create_summary_stats(tracks_df, playlists_df))
    /\ UNCHANGED <<files, now, gen, playlists_df, latest, components, reports, main_ret,
                   launcher_vars>>

\* a chart operation: it reads self.tracks_df and assigns nothing
ChartCall(op, r) ==
    /\ gen = "ready"
    /\ last' = Call(op, r.exc, r.ret, 0)
    /\ UNCHANGED <<files, now, gen, tracks_df, playlists_df, latest, components,
                   reports, main_ret, launcher_vars>>

CreatePopularityChart ==
    ChartCall("create_popularity_chart", create_popularity_chart(tracks_df))

CreateAudioFeaturesRadar ==
    ChartCall("create_audio_features_radar", create_audio_features_radar(tracks_df))

CreateYearlyTrends ==
    ChartCall("create_yearly_trends", create_yearly_trends(tracks_df))

CreateTopArtistsChart ==
    ChartCall("create_top_artists_chart", create_top_artists_chart(tracks_df))

CreateCorrelationHeatmap ==
    ChartCall("create_correlation_heatmap", create_correlation_heatmap(tracks_df))

\* the effect of a generate_html_report call that returned r
ReportDone(r) ==
    /\ tracks_df' = r.df
    /\ components' = r.components
    /\ reports' = r.reports
    /\ last' = Call("generate_html_report", r.exc, r.ret, r.writes)

\* generate_html_report at some time t of the clock
GenerateHtmlReport ==
    /\ gen = "ready"
    /\ \E t \in now..MaxClock :
        /\ now' = t
        /\ ReportDone(generate_html_report(tracks_df, playlists_df, t, reports))
    /\ UNCHANGED <<files, gen, playlists_df, latest, main_ret, launcher_vars>>

\* main() once the generator is constructed from l: the report call returned
\* r; an exception of it is printed and gives False
MainReport(l, t, r) ==
    /\ main_ret' = (r.exc = "")
    /\ tracks_df' = r.df
    /\ playlists_df' = l.playlists_df
    /\ latest' = l.latest
    /\ now' = t
    /\ components' = r.components
    /\ reports' = r.reports
    /\ last' = Call("main", "", r.exc = "", r.writes)

\* main() with load_data's outcome l: the exception of the constructor is
\* printed and gives False
MainRun(l, t) ==
    IF l.exc # ""
    THEN /\ main_ret' = FALSE
         /\ tracks_df' = l.tracks_df
         /\ playlists_df' = l.playlists_df
         /\ latest' = l.latest
         /\ last' = Call("main", "", FALSE, 0)
         /\ UNCHANGED <<now, components, reports>>
    ELSE MainReport(l, t, generate_html_report(l.tracks_df, l.playlists_df, t, reports))

\* main(): construct a generator and write the report
Main ==
    /\ gen = "none"
    /\ \E l \in load_data(files), t \in now..MaxClock : MainRun(l, t)
    /\ gen' = "exited"
    /\ UNCHANGED <<files, launcher_vars>>

Next ==
    \/ Construct
    \/ CreateSummaryStats
    \/ CreatePopularityChart
    \/ CreateAudioFeaturesRadar
    \/ CreateYearlyTrends
    \/ CreateTopArtistsChart
    \/ CreateCorrelationHeatmap
    \/ GenerateHtmlReport
    \/ Main

----------------------------------------------------------------------------
(* Initial states: the process has just started, nothing is constructed.    *)
(* The specifications differ in the contents of the data directory.         *)

NoStatus == 0 - 1

\* the launcher is not running
LauncherIdle ==
    /\ env = [dashboard_dir |-> FALSE, data_dir |-> FALSE, app_py |-> FALSE,
              modules |-> {}]
    /\ pc = "idle"
    /\ checks = <<>>
    /\ streamlit = "not started"
    /\ success = "None"
    /\ message = ""
    /\ exit_status = NoStatus

\* no generator is constructed
ReportIdle ==
    /\ now = 0
    /\ gen = "none"
    /\ tracks_df = None
    /\ playlists_df = None
    /\ latest = [tracks |-> NoFile, playlists |-> NoFile]
    /\ last = Call("start", "", None, 0)
    /\ components = NotRun
    /\ reports = {}
    /\ main_ret = None

InitProcess == ReportIdle /\ LauncherIdle

File(ds, fmt, stamp, ctime, table) ==
    [ds |-> ds, fmt |-> fmt, stamp |-> stamp, ctime |-> ctime, table |-> table]

\* the rows of a table restricted to its columns
Project(rows, cols) == [i \in DOMAIN rows |-> [c \in cols |-> rows[i][c]]]

\* a playlists table of n rows
Playlists(n) == DataFrame({"playlist_id"}, [i \in 1..n |-> [playlist_id |-> i]])

\* the scenario table of the specification, with the remaining columns filled
\* in (feature values in tenths)
SampleRows ==
    << [artist |-> "A", album |-> "X", popularity |-> 80,
        release_date |-> <<2020, 1, 1>>, release_year |-> 2019,
        danceability |-> 5, acousticness |-> 1, tempo |-> 120],
       [artist |-> "A", album |-> NaS, popularity |-> 60,
        release_date |-> <<2021, 6, 1>>, release_year |-> 2021,
        danceability |-> 7, acousticness |-> NaN, tempo |-> 90],
       [artist |-> "B", album |-> "Y", popularity |-> 90,
        release_date |-> <<2020, 3, 1>>, release_year |-> NaN,
        danceability |-> 9, acousticness |-> 3, tempo |-> 120] >>

SampleColumns == {"artist", "album", "popularity", "release_date", "release_year",
                  "danceability", "acousticness", "tempo"}

\* every combination of present and absent columns, with or without playlists
Init ==
    /\ InitProcess
    /\ \E cols \in SUBSET SampleColumns, withPlaylists \in BOOLEAN :
        files = {File("tracks", "csv", 1, 1, DataFrame(cols, Project(SampleRows, cols)))}
                \cup (IF withPlaylists
                      THEN {File("playlists", "csv", 1, 1, Playlists(2))} ELSE {})

Spec == Init /\ [][Next]_vars

----------------------------------------------------------------------------
(* Directories of several files: SpecLoad *)

FileFormats == {"parquet", "csv"}
FileStamps == {1, 2}
FileCtimes == {1, 2}

\* each file name holds its own table, so the frame tells which file was read
FileRows(fmt, stamp) == IF fmt = "csv" THEN stamp + 2 ELSE stamp

TracksFile(fmt, stamp, ctime) ==
    File("tracks", fmt, stamp, ctime,
         DataFrame({"artist"}, [i \in 1..FileRows(fmt, stamp) |-> [artist |-> "A"]]))

PlaylistsFile(fmt, stamp, ctime) ==
    File("playlists", fmt, stamp, ctime, Playlists(FileRows(fmt, stamp)))

AllFiles ==
    {TracksFile(fmt, stamp, ctime) :
        fmt \in FileFormats, stamp \in FileStamps, ctime \in FileCtimes}
    \cup {PlaylistsFile(fmt, stamp, ctime) :
        fmt \in FileFormats, stamp \in FileStamps, ctime \in FileCtimes}

\* a directory holds no two files of the same name
IsDirectory(dir) ==
    \A f, g \in dir : (f.ds = g.ds /\ f.fmt = g.fmt /\ f.stamp = g.stamp) => f = g

InitLoad ==
    /\ InitProcess
    /\ files \in {dir \in SUBSET AllFiles :
                    Cardinality(dir) <= MaxFiles /\ IsDirectory(dir)}

SpecLoad == InitLoad /\ [][Next]_vars

----------------------------------------------------------------------------
(* Tables of dated rows: SpecDates *)

DateRows ==
    { [release_date |-> <<1989, 12, 31>>, release_year |-> 1989, danceability |-> 2],
      [release_date |-> <<1990, 1, 1>>, release_year |-> 1990, danceability |-> 4],
      [release_date |-> <<2025, 12, 31>>, release_year |-> 2025, danceability |-> NaN],
      [release_date |-> <<2026, 1, 1>>, release_year |-> 2026, danceability |-> 6],
      [release_date |-> <<2021, 2, 30>>, release_year |-> NaN, danceability |-> 8] }

DateColumns ==
    { {"release_date", "danceability"},
      {"release_year", "danceability"},
      {"release_date", "release_year", "danceability"} }

\* the sequences over S of length at most n
SeqsUpTo(S, n) == UNION {[1..k -> S] : k \in 0..n}

InitDates ==
    /\ InitProcess
    /\ \E cols \in DateColumns, rows \in SeqsUpTo(DateRows, MaxDateRows) :
        files = {File("tracks", "csv", 1, 1, DataFrame(cols, Project(rows, cols)))}

SpecDates == InitDates /\ [][Next]_vars

----------------------------------------------------------------------------
(* Tables of many artists: SpecArtists *)

\* fourteen artists with one track each, in this order
FirstArtists == <<"a01", "a02", "a03", "a04", "a05", "a06", "a07",
                  "a08", "a09", "a10", "a11", "a12", "a13", "a14">>

\* the artists of the further rows: two of the above, three others, and none
MoreArtists == {"a01", "a14", "a15", "a16", "a17", NaS}

InitArtists ==
    /\ InitProcess
    /\ \E more \in SeqsUpTo(MoreArtists, MaxExtraRows) :
        files = {File("tracks", "parquet", 1, 1,
                      DataFrame({"artist"},
                                [i \in 1..(Len(FirstArtists) + Len(more)) |->
                                    [artist |-> (FirstArtists \o more)[i]]]))}

SpecArtists == InitArtists /\ [][Next]_vars

----------------------------------------------------------------------------
(* Tables of audio features: SpecCorr *)

FeatureRows ==
    { [danceability |-> 1, energy |-> 5, tempo |-> NaN, popularity |-> 50],
      [danceability |-> 2, energy |-> 5, tempo |-> 120, popularity |-> 60],
      [danceability |-> 3, energy |-> 5, tempo |-> 90, popularity |-> 70],
      [danceability |-> NaN, energy |-> 7, tempo |-> 120, popularity |-> 80],
      [danceability |-> 1, energy |-> NaN, tempo |-> 90, popularity |-> 90] }

FeatureColumns ==
    { {"popularity", "tempo"},
      {"danceability", "tempo"},
      {"energy", "tempo"},
      {"danceability", "energy", "tempo"} }

InitCorr ==
    /\ InitProcess
    /\ \E cols \in FeatureColumns, rows \in SeqsUpTo(FeatureRows, MaxCorrRows) :
        files = {File("tracks", "parquet", 1, 1, DataFrame(cols, Project(rows, cols)))}

SpecCorr == InitCorr /\ [][Next]_vars

----------------------------------------------------------------------------
(* The dashboard launcher: src/run_dashboard.py *)

required_packages == <<"streamlit", "plotly", "pandas", "python-dotenv">>

\* package.replace('-', '_'): the name handed to __import__
ImportName(package) ==
    IF package = "python-dotenv" THEN "python_dotenv" ELSE package

\* the packages whose __import__ raised ImportError
missing_packages(modules) ==
    SelectSeq(required_packages, LAMBDA p : ImportName(p) \notin modules)

\* check_requirements(): False when a package is missing
check_requirements(modules) == missing_packages(modules) = <<>>

\* check_data(): the directory data/processed exists and holds a
\* clean_tracks_* file, csv or parquet
check_data(e, dir) ==
    IF ~e.data_dir THEN FALSE
    ELSE IF Glob(dir, "tracks", "csv") = {} /\ Glob(dir, "tracks", "parquet") = {}
         THEN FALSE
         ELSE TRUE

\* the ways subprocess.run(cmd, check=True) ends: the process exits with
\* status 0, exits with another status (CalledProcessError), the user
\* interrupts it (KeyboardInterrupt), or the call raises another exception
Outcomes == {"exit 0", "CalledProcessError", "KeyboardInterrupt", "Exception"}

\* what launch_dashboard returns once subprocess.run has ended: the except
\* clauses return True or False, and the try block itself returns nothing
launch_result(outcome) ==
    CASE outcome = "KeyboardInterrupt" -> "True"
      [] outcome = "CalledProcessError" -> "False"
      [] outcome = "Exception" -> "False"
      [] outcome = "exit 0" -> "None"

\* where main goes after a check: a check that failed ends in sys.exit(1)
AfterCheck_NoExit(passed, next) == next

AfterCheck(passed, next) == IF passed THEN next ELSE "exited"

\* one check of main and its "if not ...: sys.exit(1)"
CheckStep(name, passed, next) ==
    /\ checks' = Append(checks, [name |-> name, passed |-> passed])
    /\ pc' = AfterCheck(passed, next)
    /\ exit_status' = IF AfterCheck(passed, next) = "exited" THEN 1 ELSE exit_status
    /\ UNCHANGED <<files, report_vars, env, streamlit, success, message>>

\* main: Path("dashboard").exists()
CheckDirectory ==
    /\ pc = "start"
    /\ CheckStep("directory", env.dashboard_dir, "requirements")

\* main: check_requirements()
CheckRequirements ==
    /\ pc = "requirements"
    /\ CheckStep("requirements", check_requirements(env.modules), "data")

\* main: check_data()
CheckData ==
    /\ pc = "data"
    /\ CheckStep("data", check_data(env, files), "launch")

\* launch_dashboard up to subprocess.run: without app.py it returns False,
\* else the streamlit process is started
LaunchDashboard ==
    /\ pc = "launch"
    /\ IF ~env.app_py
       THEN /\ success' = "False"
            /\ pc' = "returned"
            /\ UNCHANGED streamlit
       ELSE /\ streamlit' = "running"
            /\ pc' = "running"
            /\ UNCHANGED success
    /\ UNCHANGED <<files, report_vars, env, checks, message, exit_status>>

\* subprocess.run ends and launch_dashboard returns
StreamlitEnds ==
    /\ pc = "running"
    /\ \E outcome \in Outcomes :
        /\ streamlit' = outcome
        /\ success' = launch_result(outcome)
    /\ pc' = "returned"
    /\ UNCHANGED <<files, report_vars, env, checks, message, exit_status>>

\* main after launch_dashboard: "if success:" holds of True only
Finish ==
    /\ pc = "returned"
    /\ IF success = "True"
       THEN message' = "completed" /\ exit_status' = 0
       ELSE message' = "failed" /\ exit_status' = 1
    /\ pc' = "exited"
    /\ UNCHANGED <<files, report_vars, env, checks, streamlit, success>>

NextLauncher ==
    \/ CheckDirectory
    \/ CheckRequirements
    \/ CheckData
    \/ LaunchDashboard
    \/ StreamlitEnds
    \/ Finish

\* the modules an environment may hold: those of the four packages, and a
\* module of the name check_requirements imports
Modules == {"streamlit", "plotly", "pandas", "dotenv", "python_dotenv"}

\* the files data/processed may hold
DataFiles == {TracksFile("parquet", 1, 1), TracksFile("csv", 1, 1),
              PlaylistsFile("csv", 1, 1)}

\* main starts in some working directory and environment
InitLauncher ==
    /\ ReportIdle
    /\ env \in [dashboard_dir : BOOLEAN, data_dir : BOOLEAN, app_py : BOOLEAN,
                modules : SUBSET Modules]
    /\ files \in SUBSET DataFiles
    /\ ~env.data_dir => files = {}
    /\ env.app_py => env.dashboard_dir
    /\ pc = "start"
    /\ checks = <<>>
    /\ streamlit = "not started"
    /\ success = "None"
    /\ message = ""
    /\ exit_status = NoStatus

SpecLauncher == InitLauncher /\ [][NextLauncher]_vars

----------------------------------------------------------------------------
(* Properties *)

\* the files of a dataset in the directory, of either format
DatasetFiles(ds) == {f \in files : f.ds = ds}

\* the file load_data chose for a dataset
ChosenFile(ds) ==
    CHOOSE f \in files :
        [ds |-> f.ds, fmt |-> f.fmt, stamp |-> f.stamp, ctime |-> f.ctime] = latest[ds]

\* the tracks table as load_data read it
LoadedTracks == ReadFile(ChosenFile("tracks"))

\* the return value of an aggregation operation on the table df
ResultOn(op, df) ==
    CASE op = "create_summary_stats" -> create_summary_stats(df, playlists_df).ret
      [] op = "create_popularity_chart" -> create_popularity_chart(df).ret
      [] op = "create_audio_features_radar" -> create_audio_features_radar(df).ret
      [] op = "create_yearly_trends" -> create_yearly_trends(df).ret
      [] op = "create_top_artists_chart" -> create_top_artists_chart(df).ret
      [] op = "create_correlation_heatmap" -> create_correlation_heatmap(df).ret

Aggregations ==
    {"create_summary_stats", "create_popularity_chart", "create_audio_features_radar",
     "create_yearly_trends", "create_top_artists_chart", "create_correlation_heatmap"}

\* C1: the result of every aggregation operation is the one the operation
\* gives on the table as loaded, whatever operations ran before it; in
\* particular create_yearly_trends returns the same with or without an
\* earlier create_summary_stats.
C1_ResultIndependentOfHistory ==
    (gen = "ready" /\ last.op \in Aggregations)
        => last.ret = ResultOn(last.op, LoadedTracks)

\* C2: the tracks file and the playlists file load_data parsed are files of
\* the latest creation time among all files of their dataset, parquet and csv
\* together.
C2_LatestAcrossFormats ==
    gen = "ready" =>
        /\ \A f \in DatasetFiles("tracks") : f.ctime <= latest.tracks.ctime
        /\ \A f \in DatasetFiles("playlists") : f.ctime <= latest.playlists.ctime

\* the section of the report that holds the chart c, or its placeholder
SectionHolds(section, c, text) ==
    IF c # None THEN section = c ELSE section = NoData(text)

\* C3: generate_html_report on a loaded table raises nothing and writes one
\* report file, whatever columns the table has; each of its five sections
\* holds the chart its operation returned, or the no-data placeholder of the
\* section when the operation returned None.
C3_ReportForEveryColumnSet ==
    (gen = "ready" /\ last.op = "generate_html_report") =>
        /\ last.exc = ""
        /\ last.writes = 1
        /\ Cardinality({r \in reports : r.path = last.ret}) = 1
        /\ \A r \in reports : r.path = last.ret =>
            /\ SectionHolds(r.html.popularity, components.popularity_chart,
                            "Popularity data not available")
            /\ SectionHolds(r.html.radar, components.radar_chart,
                            "Audio features data not available")
            /\ SectionHolds(r.html.artists, components.artists_chart,
                            "Artist data not available")
            /\ SectionHolds(r.html.trends, components.trends_chart,
                            "Temporal data not available")
            /\ SectionHolds(r.html.correlation, components.correlation_chart,
                            "Correlation data not available")
        /\ \A op \in Aggregations \ {"create_summary_stats"} :
            ResultOn(op, tracks_df) =
                CASE op = "create_popularity_chart" -> components.popularity_chart
                  [] op = "create_audio_features_radar" -> components.radar_chart
                  [] op = "create_yearly_trends" -> components.trends_chart
                  [] op = "create_top_artists_chart" -> components.artists_chart
                  [] op = "create_correlation_heatmap" -> components.correlation_chart

\* a report written from a table that lacks some chart's columns and has
\* those of another
C3_Witness ==
    /\ gen = "ready"
    /\ last.op = "generate_html_report"
    /\ last.writes = 1
    /\ components.popularity_chart = None
    /\ components.correlation_chart = None
    /\ components.artists_chart # None
    /\ \E r \in reports :
          /\ r.path = last.ret
          /\ r.html.artists = components.artists_chart
          /\ r.html.popularity = NoData("Popularity data not available")
          /\ r.html.correlation = NoData("Correlation data not available")

\* C4: the constructor fails, with FileNotFoundError, exactly when the
\* directory holds no tracks file; main then writes no report and returns
\* False; a directory without playlists files never makes the constructor
\* fail and gives total_playlists = 0.
C4_OnlyMissingTracksIsFatal ==
    /\ last.op = "ReportGenerator" =>
        /\ last.exc \in {"", "FileNotFoundError"}
        /\ (last.exc = "FileNotFoundError") <=> (DatasetFiles("tracks") = {})
        /\ (gen = "failed") <=> (last.exc # "")
    /\ last.op = "main" =>
        /\ (main_ret = FALSE) <=> (DatasetFiles("tracks") = {})
        /\ DatasetFiles("tracks") = {} => (reports = {} /\ last.writes = 0)
        /\ (DatasetFiles("tracks") # {} /\ DatasetFiles("playlists") = {})
              => components.stats.total_playlists = 0
    /\ (gen = "ready" /\ last.op = "create_summary_stats"
        /\ DatasetFiles("playlists") = {}) => last.ret.total_playlists = 0

\* main has run in a directory of playlists files only
C4_Witness ==
    /\ last.op = "main"
    /\ DatasetFiles("tracks") = {}
    /\ DatasetFiles("playlists") # {}
    /\ main_ret = FALSE
    /\ reports = {}

\* the years of the release dates of the loaded table that parse
ParsedYears ==
    {d[1] : d \in {LoadedTracks.rows[i]["release_date"] :
                      i \in {j \in 1..Len(LoadedTracks.rows) :
                                Parses(LoadedTracks.rows[j]["release_date"])}}}

\* C5: on a table with a release_date column create_summary_stats raises
\* nothing; year_range is the least and the greatest year of the dates that
\* parse, and None when no date parses (an empty table included).
C5_YearRangeOfParsedDates ==
    (gen = "ready" /\ last.op = "create_summary_stats"
     /\ "release_date" \in LoadedTracks.cols) =>
        /\ last.exc = ""
        /\ "year_range" \in DOMAIN last.ret
        /\ IF ParsedYears = {}
           THEN last.ret.year_range = None
           ELSE /\ last.ret.year_range # None
                /\ last.ret.year_range.min \in ParsedYears
                /\ last.ret.year_range.max \in ParsedYears
                /\ \A y \in ParsedYears :
                      last.ret.year_range.min <= y /\ y <= last.ret.year_range.max

\* the stats of a table with a date that does not parse and two that do
C5_Witness ==
    /\ gen = "ready"
    /\ last.op = "create_summary_stats"
    /\ "release_date" \in LoadedTracks.cols
    /\ \E i \in 1..Len(LoadedTracks.rows) : ~Parses(LoadedTracks.rows[i]["release_date"])
    /\ Cardinality(ParsedYears) = 2
    /\ last.ret.year_range # None
    /\ last.ret.year_range.min < last.ret.year_range.max

\* C6: every aggregation operation leaves self.tracks_df as load_data read
\* it: the same columns and the same values.
C6_TableUnchanged ==
    gen = "ready" => tracks_df = LoadedTracks

\* C7: the years of a yearly-trends series lie in 1990..2025 and are strictly
\* ascending (so no year occurs twice).
C7_YearsInWindowAscending ==
    (gen = "ready" /\ last.op = "create_yearly_trends" /\ last.ret # None) =>
        /\ \A i \in DOMAIN last.ret.x : last.ret.x[i] >= 1990 /\ last.ret.x[i] <= 2025
        /\ \A i, j \in DOMAIN last.ret.x : i < j => last.ret.x[i] < last.ret.x[j]
        /\ \A i \in DOMAIN last.ret.traces :
              DOMAIN last.ret.traces[i].y = DOMAIN last.ret.x

\* a series of two years from rows out of order, one of them out of the window
C7_Witness ==
    /\ gen = "ready"
    /\ last.op = "create_yearly_trends"
    /\ last.ret # None
    /\ Len(last.ret.x) = 2
    /\ Len(tracks_df.rows) = 3
    /\ tracks_df.rows[1]["release_year"] > tracks_df.rows[2]["release_year"]
    /\ \E i \in 1..3 : tracks_df.rows[i]["release_year"] > 2025

\* the artists of the table
ArtistsOf(df) == {df.rows[i]["artist"] : i \in 1..Len(df.rows)} \ {NaS}

\* the number of rows of an artist
TracksOf(df, a) == Cardinality({i \in 1..Len(df.rows) : df.rows[i]["artist"] = a})

\* C8: the top-artist ranking has at most 15 entries, each with the number of
\* rows of its artist, counts non-increasing, and no artist left out has more
\* rows than one that is in.
C8_TopArtistsRanking ==
    (gen = "ready" /\ last.op = "create_top_artists_chart"
     /\ "artist" \in tracks_df.cols) =>
        /\ last.exc = ""
        /\ last.ret # None
        /\ Len(last.ret.y) <= 15
        /\ Len(last.ret.x) = Len(last.ret.y)
        /\ \A i \in DOMAIN last.ret.y :
              /\ last.ret.y[i] \in ArtistsOf(tracks_df)
              /\ last.ret.x[i] = TracksOf(tracks_df, last.ret.y[i])
        /\ \A i, j \in DOMAIN last.ret.y : i < j =>
              /\ last.ret.x[i] >= last.ret.x[j]
              /\ last.ret.y[i] # last.ret.y[j]
        /\ \A a \in ArtistsOf(tracks_df) :
              (\A i \in DOMAIN last.ret.y : last.ret.y[i] # a) =>
                  \A i \in DOMAIN last.ret.x : TracksOf(tracks_df, a) <= last.ret.x[i]
        /\ Len(last.ret.y) < 15 =>
              \A a \in ArtistsOf(tracks_df) : \E i \in DOMAIN last.ret.y : last.ret.y[i] = a

\* a full ranking of unequal counts that leaves an artist out
C8_Witness ==
    /\ gen = "ready"
    /\ last.op = "create_top_artists_chart"
    /\ Len(last.ret.y) = 15
    /\ last.ret.x[1] > last.ret.x[15]
    /\ Cardinality(ArtistsOf(tracks_df)) > 15

\* C9: on a table without an artist column create_summary_stats returns
\* unique_artists = 0 and create_top_artists_chart returns None; neither raises.
C9_NoArtistColumn ==
    (gen = "ready" /\ "artist" \notin tracks_df.cols) =>
        /\ last.op = "create_summary_stats" =>
              (last.exc = "" /\ last.ret.unique_artists = 0)
        /\ last.op = "create_top_artists_chart" =>
              (last.exc = "" /\ last.ret = None)
        /\ last.op = "generate_html_report" =>
              /\ last.exc = ""
              /\ components.stats.unique_artists = 0
              /\ components.artists_chart = None

\* create_top_artists_chart has returned on a table without an artist column
\* that has other columns
C9_Witness ==
    /\ gen = "ready"
    /\ "artist" \notin tracks_df.cols
    /\ "album" \in tracks_df.cols
    /\ last.op = "create_top_artists_chart"
    /\ last.ret = None

\* the correlation 1.0 and the correlation NaN
One == [nan |-> FALSE, sign |-> 1, sq |-> [num |-> 1, den |-> 1]]
NaNCorr == [nan |-> TRUE, sign |-> 0, sq |-> NaNFrac]

\* the named audio features the table has
PresentFeatures == {f \in {corr_features[i] : i \in DOMAIN corr_features} :
                       f \in tracks_df.cols}

\* the matrix is square over exactly the present features, and symmetric
SquareSymmetric(chart) ==
    /\ {chart.labels[i] : i \in DOMAIN chart.labels} = PresentFeatures
    /\ Len(chart.labels) = Cardinality(PresentFeatures)
    /\ DOMAIN chart.z = DOMAIN chart.labels
    /\ \A i \in DOMAIN chart.z : DOMAIN chart.z[i] = DOMAIN chart.labels
    /\ \A i, j \in DOMAIN chart.labels : chart.z[i][j] = chart.z[j][i]

\* the values of a column that are not missing
ValuesOf(df, f) == {df.rows[i][f] : i \in 1..Len(df.rows)} \ {NaN}

HasTrendInputs(df) ==
    /\ "release_date" \in df.cols \/ "release_year" \in df.cols
    /\ \E i \in DOMAIN trend_features : trend_features[i] \in df.cols

\* C11: in generate_html_report create_summary_stats has returned before
\* create_yearly_trends is called, so the trends chart is the one of the frame
\* create_summary_stats left, and the trends section of every report holds a
\* chart exactly when the loaded table has a release_date or release_year
\* column and one of danceability, energy, valence.
C11_TrendsAfterSummaryStats ==
    /\ (gen \in {"ready", "exited"} /\ components # NotRun) =>
          components.trends_chart =
              create_yearly_trends(
                  create_summary_stats(LoadedTracks, playlists_df).df).ret
    /\ gen \in {"ready", "exited"} =>
          \A r \in reports :
              /\ (r.html.trends.kind = "chart") <=> HasTrendInputs(LoadedTracks)
              /\ (r.html.trends = NoData("Temporal data not available"))
                    <=> ~HasTrendInputs(LoadedTracks)

\* a report with a trends chart of a table that was loaded without a
\* release_year column, and no operation called before the report
C11_Witness ==
    /\ gen = "exited"
    /\ main_ret = TRUE
    /\ "release_year" \notin LoadedTracks.cols
    /\ "release_date" \in LoadedTracks.cols
    /\ \E r \in reports : r.html.trends.kind = "chart" /\ Len(r.html.trends.x) = 2

\* the checks of main, in the order of the code
CheckOrder == <<"directory", "requirements", "data">>

AllChecksPassed ==
    /\ Len(checks) = Len(CheckOrder)
    /\ \A i \in DOMAIN checks : checks[i].passed

\* C12: the checks are made in the order directory, requirements, data; the
\* first one that fails ends the process with exit status 1, with no later
\* check and no launch; streamlit is started only after all three have passed.
C12_LaunchAfterChecksInOrder ==
    /\ Len(checks) <= Len(CheckOrder)
    /\ \A i \in DOMAIN checks : checks[i].name = CheckOrder[i]
    /\ \A i \in DOMAIN checks : i < Len(checks) => checks[i].passed
    /\ (checks # <<>> /\ ~checks[Len(checks)].passed) =>
          /\ pc = "exited"
          /\ exit_status = 1
          /\ streamlit = "not started"
          /\ success = "None"
    /\ (streamlit # "not started" \/ pc \in {"launch", "running", "returned"}
        \/ success # "None") => AllChecksPassed

\* streamlit runs, after the three checks
C12_Witness ==
    /\ streamlit = "running"
    /\ AllChecksPassed
    /\ exit_status = NoStatus

\* the module a package installs: python-dotenv is imported as dotenv
\* (src/dashboard/start_dashboard.py), the others under their own name
PackageModule(package) ==
    IF package = "python-dotenv" THEN "dotenv" ELSE package

\* C13: check_requirements returns True exactly when the modules of all four
\* required packages can be imported, the module of python-dotenv being dotenv.
C13_RequirementsIffInstalled ==
    \A i \in DOMAIN checks :
        checks[i].name = "requirements" =>
            (checks[i].passed <=>
                \A k \in DOMAIN required_packages :
                    PackageModule(required_packages[k]) \in env.modules)

\* C14: once the checks have passed, main reports a completed session and does
\* not exit with status 1 when streamlit exited with status 0 or was
\* interrupted by the user; it exits with status 1 only after a
\* CalledProcessError, another exception, or without app.py.
C14_CleanEndIsSuccess ==
    (pc = "exited" /\ AllChecksPassed) =>
        /\ streamlit \in {"exit 0", "KeyboardInterrupt"} =>
              (message = "completed" /\ exit_status # 1)
        /\ exit_status = 1 =>
              (streamlit \in {"CalledProcessError", "Exception"} \/ ~env.app_py)

====
